---- MODULE Spec2Model ----
(***************************************************************************)
(* A model of ubio/fuzzy-search: src/main/match.ts (fuzzyMatch,            *)
(* fuzzyMatchByTokens, fuzzyMatchByWildcard, fuzzyMatchScore) and          *)
(* the module of fuzzySearch.                                              *)
(*                                                                         *)
(* Strings are sequences of UTF-16 code units (ASCII, and U+0130, the one  *)
(* code unit whose lower case is two code units); string indices are       *)
(* 0-based as in the source, so s.charAt(i) is s[i + 1].                   *)
(* A JavaScript number that is a score is one of NaN, +Infinity or an      *)
(* exact fraction num/den with den > 0 (floating-point rounding of finite  *)
(* quotients is not modelled; signs and zero/NaN/Infinity are exact).      *)
(***************************************************************************)
EXTENDS Integers, Sequences, FiniteSets, TLC

(***************************************************************************)
(* Bounds of the model.                                                    *)
(***************************************************************************)
MaxSourceLen == 3
MaxQueryLen == 3
MaxCandidates == 3

(***************************************************************************)
(* Characters.                                                             *)
(***************************************************************************)
ChA == 97
ChUpperA == 65
ChOne == 49
ChUnderscore == 95
ChHyphen == 45
ChSpace == 32
\* U+0130, LATIN CAPITAL LETTER I WITH DOT ABOVE, whose lower case is the two
\* code units U+0069 U+0307
ChDottedI == 304
ChI == 105
ChDotAbove == 775

SourceChars == {ChA, ChUpperA, ChOne, ChUnderscore, ChDottedI}
QueryChars == {ChA, ChUpperA, ChOne, ChSpace}

IsLower(c) == c >= 97 /\ c <= 122
IsUpper(c) == c >= 65 /\ c <= 90
IsDigit(c) == c >= 48 /\ c <= 57
IsLowerOrDigit(c) == IsLower(c) \/ IsDigit(c)
\* \w of the regular expression: [A-Za-z0-9_]
IsWordChar(c) == IsLower(c) \/ IsUpper(c) \/ IsDigit(c) \/ c = 95
\* \s of the regular expression, restricted to ASCII
IsWhitespace(c) == c = 32 \/ (c >= 9 /\ c <= 13)

\* String.prototype.toLowerCase on a string of one code unit: a string
CharToLowerCase(c) ==
    IF IsUpper(c) THEN <<c + 32>>
    ELSE IF c = ChDottedI THEN <<ChI, ChDotAbove>>
    ELSE <<c>>

RECURSIVE ToLowerCase(_)
\* String.prototype.toLowerCase
ToLowerCase(s) ==
    IF s = <<>> THEN <<>> ELSE CharToLowerCase(Head(s)) \o ToLowerCase(Tail(s))
\* s.replace(/\s+/g, '')
StripWhitespace(s) == SelectSeq(s, LAMBDA c : ~IsWhitespace(c))
\* query.toLowerCase().replace(/\s+/g, '')
NormalizeQuery(query) == StripWhitespace(ToLowerCase(query))

\* All strings over an alphabet of length at most n
StringsUpTo(chars, n) == UNION {[1..k -> chars] : k \in 0..n}

RECURSIVE SumSeq(_)
\* matches.reduce((sum, m) => sum + m, 0)
SumSeq(s) == IF s = <<>> THEN 0 ELSE Head(s) + SumSeq(Tail(s))

(***************************************************************************)
(* Scores: JavaScript numbers.                                             *)
(***************************************************************************)
NaN == [kind |-> "nan", num |-> 0, den |-> 1]
Infinity == [kind |-> "inf", num |-> 1, den |-> 1]
Num(n, d) == [kind |-> "num", num |-> n, den |-> d]
Zero == Num(0, 1)

\* a > b on JavaScript numbers (false whenever an operand is NaN)
ScoreGt(a, b) ==
    IF a.kind = "nan" \/ b.kind = "nan" THEN FALSE
    ELSE IF b.kind = "inf" THEN FALSE
    ELSE IF a.kind = "inf" THEN TRUE
    ELSE a.num * b.den > b.num * a.den

\* a === b on JavaScript numbers (NaN is not equal to itself)
ScoreEq(a, b) ==
    IF a.kind = "nan" \/ b.kind = "nan" THEN FALSE
    ELSE IF a.kind = "inf" \/ b.kind = "inf" THEN a.kind = b.kind
    ELSE a.num * b.den = b.num * a.den

\* score * tokenScoreBias for a positive integer bias
ScoreTimes(a, bias) ==
    IF a.kind = "num" THEN Num(a.num * bias, a.den) ELSE a

\* fuzzyMatchScore: n / (sum - (n / l))
fuzzyMatchScore(source, matches) ==
    LET l == Len(source)
        n == Len(matches)
        sum == SumSeq(matches)
        d == sum * l - n
    IN  IF l = 0
        THEN IF n = 0 THEN NaN ELSE Zero
        ELSE IF d = 0
             THEN IF n = 0 THEN NaN ELSE Infinity
             ELSE IF d > 0 THEN Num(n * l, d) ELSE Num(0 - n * l, 0 - d)

NoMatch == [score |-> Zero, matches |-> <<>>]

(***************************************************************************)
(* The tokenizer: /[a-z][a-z0-9]*(?=[A-Z]|\b|_)|[A-Z][a-z0-9]*/g           *)
(***************************************************************************)
\* s.charAt(i), for 0 <= i < s.length
CharAt(s, i) == s[i + 1]

\* \b at position p: exactly one of the characters before and after p is \w
WordBoundary(s, p) ==
    LET before == p >= 1 /\ p <= Len(s) /\ IsWordChar(CharAt(s, p - 1))
        after == p >= 0 /\ p < Len(s) /\ IsWordChar(CharAt(s, p))
    IN  before # after

\* (?=[A-Z]|\b|_) at position p
Lookahead(s, p) ==
    \/ p < Len(s) /\ IsUpper(CharAt(s, p))
    \/ WordBoundary(s, p)
    \/ p < Len(s) /\ CharAt(s, p) = ChUnderscore

\* End of the longest run [a-z0-9]* starting at position p
RunEnd(s, p) ==
    LET stops == {e \in p..Len(s) : e = Len(s) \/ ~IsLowerOrDigit(CharAt(s, e))}
    IN  CHOOSE e \in stops : \A f \in stops : e <= f

\* End of the match of the pattern anchored at position i, or -1.
\* The first alternative is greedy and backtracks to the longest run the
\* lookahead accepts; the second alternative takes the longest run.
MatchAt(s, i) ==
    IF IsLower(CharAt(s, i))
    THEN LET ends == {e \in (i + 1)..RunEnd(s, i + 1) : Lookahead(s, e)}
         IN  IF ends = {} THEN -1
             ELSE CHOOSE e \in ends : \A f \in ends : f <= e
    ELSE IF IsUpper(CharAt(s, i)) THEN RunEnd(s, i + 1)
    ELSE -1

\* regex.exec(source) of a global regular expression whose lastIndex is given:
\* the leftmost match at or after lastIndex, with lastIndex moved to its end;
\* null (index -1) with lastIndex reset to 0 when there is none.
RegexExec(s, lastIndex) ==
    LET starts == {i \in lastIndex..(Len(s) - 1) : MatchAt(s, i) # -1}
    IN  IF starts = {} THEN [index |-> -1, lastIndex |-> 0]
        ELSE LET i == CHOOSE i \in starts : \A j \in starts : i <= j
             IN  [index |-> i, lastIndex |-> MatchAt(s, i)]

RECURSIVE TokensFrom(_, _)
\* The start offsets of all tokens of s, in order (repeated exec from 0)
TokensFrom(s, lastIndex) ==
    LET m == RegexExec(s, lastIndex)
    IN  IF m.index = -1 THEN <<>>
        ELSE <<m.index>> \o TokensFrom(s, m.lastIndex)

TokenStarts(s) == TokensFrom(s, 0)

(***************************************************************************)
(* fuzzyMatchByTokens                                                      *)
(***************************************************************************)
\* The locals of fuzzyMatchByTokens on entry to the while loop. scans counts
\* the calls of regex.exec; ret is the value returned.
TokenInit(query) ==
    [status |-> "loop", cursor |-> 0, queue |-> NormalizeQuery(query),
     matches |-> <<>>, lastIndex |-> 0, scans |-> 0, ret |-> NoMatch]

\* TokenStep moving to the next character, not the next token, on a mismatch
TokenStepNextCharacter(source, t) ==
    IF t.queue = <<>>
    THEN [t EXCEPT !.status = "returned",
                   !.ret = [score |-> fuzzyMatchScore(source, t.matches),
                            matches |-> t.matches]]
    ELSE IF t.cursor >= Len(source)
    THEN [t EXCEPT !.status = "failed", !.ret = NoMatch]
    ELSE IF <<Head(t.queue)>> = CharToLowerCase(CharAt(source, t.cursor))
    THEN [t EXCEPT !.matches = Append(t.matches, t.cursor),
                   !.cursor = t.cursor + 1,
                   !.queue = Tail(t.queue)]
    ELSE [t EXCEPT !.cursor = t.cursor + 1,
                   !.scans = t.scans + 1]

\* TokenStep staying on the last character when no token is left
TokenStepStayInside(source, t) ==
    IF t.queue = <<>>
    THEN [t EXCEPT !.status = "returned",
                   !.ret = [score |-> fuzzyMatchScore(source, t.matches),
                            matches |-> t.matches]]
    ELSE IF t.cursor >= Len(source)
    THEN [t EXCEPT !.status = "failed", !.ret = NoMatch]
    ELSE IF <<Head(t.queue)>> = CharToLowerCase(CharAt(source, t.cursor))
    THEN [t EXCEPT !.matches = Append(t.matches, t.cursor),
                   !.cursor = t.cursor + 1,
                   !.queue = Tail(t.queue)]
    ELSE LET m == RegexExec(source, t.lastIndex)
         IN  [t EXCEPT !.cursor = IF m.index = -1 THEN Len(source) - 1 ELSE m.index,
                       !.lastIndex = m.lastIndex,
                       !.scans = t.scans + 1]

\* One test of the loop condition and, when it holds, one iteration
TokenStep(source, t) ==
    IF t.queue = <<>>
    THEN [t EXCEPT !.status = "returned",
                   !.ret = [score |-> fuzzyMatchScore(source, t.matches),
                            matches |-> t.matches]]
    ELSE IF t.cursor >= Len(source)
    THEN [t EXCEPT !.status = "failed", !.ret = NoMatch]
    ELSE IF <<Head(t.queue)>> = CharToLowerCase(CharAt(source, t.cursor))
    THEN [t EXCEPT !.matches = Append(t.matches, t.cursor),
                   !.cursor = t.cursor + 1,
                   !.queue = Tail(t.queue)]
    ELSE LET m == RegexExec(source, t.lastIndex)
         IN  [t EXCEPT !.cursor = IF m.index = -1 THEN Len(source) ELSE m.index,
                       !.lastIndex = m.lastIndex,
                       !.scans = t.scans + 1]

RECURSIVE TokenRun(_, _)
TokenRun(source, t) ==
    IF t.status # "loop" THEN t ELSE TokenRun(source, TokenStep(source, t))

fuzzyMatchByTokens(query, source) == TokenRun(source, TokenInit(query)).ret

(***************************************************************************)
(* fuzzyMatchByWildcard                                                    *)
(***************************************************************************)
\* s.indexOf(letter, fromIdx): the first index >= fromIdx where the string
\* letter occurs in s, or -1
IndexOf(s, letter, fromIdx) ==
    LET found == {i \in fromIdx..(Len(s) - Len(letter)) :
                      SubSeq(s, i + 1, i + Len(letter)) = letter}
    IN  IF found = {} THEN -1
        ELSE CHOOSE i \in found : \A j \in found : i <= j

RECURSIVE WildcardLoopSameIndex(_, _, _, _, _, _)
\* WildcardLoop searching the next letter from the index just found
WildcardLoopSameIndex(query, source, sourceLowercased, i, fromIdx, matches) ==
    IF i >= Len(query)
    THEN [score |-> fuzzyMatchScore(source, matches), matches |-> matches]
    ELSE LET letter == CharToLowerCase(CharAt(query, i))
             idx == IndexOf(sourceLowercased, letter, fromIdx)
         IN  IF idx = -1 THEN NoMatch
             ELSE WildcardLoopSameIndex(query, source, sourceLowercased, i + 1,
                                        idx, Append(matches, idx))

RECURSIVE WildcardLoop(_, _, _, _, _, _)
\* The for loop over the query letters, from iteration i on
WildcardLoop(query, source, sourceLowercased, i, fromIdx, matches) ==
    IF i >= Len(query)
    THEN [score |-> fuzzyMatchScore(source, matches), matches |-> matches]
    ELSE LET letter == CharToLowerCase(CharAt(query, i))
             idx == IndexOf(sourceLowercased, letter, fromIdx)
         IN  IF idx = -1 THEN NoMatch
             ELSE WildcardLoop(query, source, sourceLowercased, i + 1,
                               idx + 1, Append(matches, idx))

fuzzyMatchByWildcard(query, source) ==
    WildcardLoop(NormalizeQuery(query), source, ToLowerCase(source), 0, 0, <<>>)

(***************************************************************************)
(* fuzzyMatch                                                              *)
(***************************************************************************)
\* fuzzyMatchResult with the bias applied to the wildcard score as well
fuzzyMatchResultBiasBoth(tokenMatch, query, source, tokenScoreBias) ==
    LET match == IF ScoreGt(tokenMatch.score, Zero) THEN tokenMatch
                 ELSE fuzzyMatchByWildcard(query, source)
    IN  [score |-> ScoreTimes(match.score, tokenScoreBias), matches |-> match.matches]

\* The body of fuzzyMatch after the call of fuzzyMatchByTokens
fuzzyMatchResult(tokenMatch, query, source, tokenScoreBias) ==
    IF ScoreGt(tokenMatch.score, Zero)
    THEN [score |-> ScoreTimes(tokenMatch.score, tokenScoreBias),
          matches |-> tokenMatch.matches]
    ELSE fuzzyMatchByWildcard(query, source)

fuzzyMatch(query, source, tokenScoreBias) ==
    fuzzyMatchResult(fuzzyMatchByTokens(query, source), query, source,
                     tokenScoreBias)

(***************************************************************************)
(* fuzzySearch                                                             *)
(***************************************************************************)
RECURSIVE StringGt(_, _)
\* a > b on strings: lexicographic order of the code units
StringGt(a, b) ==
    IF a = <<>> THEN FALSE
    ELSE IF b = <<>> THEN TRUE
    ELSE IF Head(a) # Head(b) THEN Head(a) > Head(b)
    ELSE StringGt(Tail(a), Tail(b))

\* Compare ordering by score alone
CompareScoreOnly(a, b) ==
    IF ScoreGt(a.score, b.score) THEN -1 ELSE 1

\* The comparator handed to results.sort
Compare(a, b) ==
    IF ScoreEq(a.score, b.score)
    THEN (IF StringGt(a.source, b.source) THEN 1 ELSE -1)
    ELSE IF ScoreGt(a.score, b.score) THEN -1 ELSE 1

RECURSIVE InsertPos(_, _, _, _)
\* Binary search of the place of x in the sorted prefix (0-based, in
\* left..right), as the engine's binary insertion sort of short arrays does
InsertPos(sorted, x, left, right) ==
    IF left >= right THEN left
    ELSE LET mid == left + ((right - left) \div 2)
         IN  IF Compare(x, sorted[mid + 1]) < 0
             THEN InsertPos(sorted, x, left, mid)
             ELSE InsertPos(sorted, x, mid + 1, right)

RECURSIVE SortFrom(_, _)
\* results.sort(comparator): binary insertion of each element in turn
SortFrom(sorted, rest) ==
    IF rest = <<>> THEN sorted
    ELSE LET x == Head(rest)
             p == InsertPos(sorted, x, 0, Len(sorted))
         IN  SortFrom(SubSeq(sorted, 1, p) \o <<x>> \o SubSeq(sorted, p + 1, Len(sorted)),
                      Tail(rest))

Sort(rs) == SortFrom(<<>>, rs)

RECURSIVE Collect(_, _, _, _, _)
\* The for loop of fuzzySearch over sources.entries(), from sourceIndex on
Collect(query, srcs, tokenScoreBias, sourceIndex, rs) ==
    IF sourceIndex >= Len(srcs) THEN rs
    ELSE LET src == srcs[sourceIndex + 1]
             match == fuzzyMatch(query, src, tokenScoreBias)
         IN  Collect(query, srcs, tokenScoreBias, sourceIndex + 1,
                     IF ScoreGt(match.score, Zero)
                     THEN Append(rs, [score |-> match.score, matches |-> match.matches,
                                      source |-> src, sourceIndex |-> sourceIndex])
                     ELSE rs)

fuzzySearch(query, srcs, tokenScoreBias) ==
    Sort(Collect(query, srcs, tokenScoreBias, 0, <<>>))

(***************************************************************************)
(* The programs: one call of fuzzyMatch, run step by step through the loop *)
(* of fuzzyMatchByTokens, and one call of fuzzySearch.                     *)
(***************************************************************************)
VARIABLES
    query,           \* the query argument
    source,          \* the source argument of fuzzyMatch
    tokenScoreBias,  \* options.tokenScoreBias
    tok,             \* the locals of fuzzyMatchByTokens
    result,          \* the value fuzzyMatch returned
    sources,         \* the sources argument of fuzzySearch
    results,         \* the value fuzzySearch returned
    pc               \* "idle"; "tokens", "done"; "searched"; "wildcarded"

vars == <<query, source, tokenScoreBias, tok, result, sources, results, pc>>

\* options.tokenScoreBias: the default and the neutral one
TokenScoreBiases == {1, 10}

Queries == StringsUpTo(QueryChars, MaxQueryLen)
Sources == StringsUpTo(SourceChars, MaxSourceLen)

\* Nothing has been called yet
Init ==
    /\ query = <<>>
    /\ source = <<>>
    /\ tokenScoreBias = 10
    /\ tok = TokenInit(<<>>)
    /\ result = NoMatch
    /\ sources = <<>>
    /\ results = <<>>
    /\ pc = "idle"

\* fuzzyMatch(query, source, options) is called and enters fuzzyMatchByTokens
FuzzyMatchCall ==
    /\ pc = "idle"
    /\ \E q \in Queries, s \in Sources :
          /\ query' = q
          /\ source' = s
          /\ tok' = TokenInit(q)
    /\ pc' = "tokens"
    /\ UNCHANGED <<tokenScoreBias, result, sources, results>>

\* One test of the while condition of fuzzyMatchByTokens and its iteration
TokenLoop ==
    /\ pc = "tokens"
    /\ tok.status = "loop"
    /\ tok' = TokenStep(source, tok)
    /\ UNCHANGED <<query, source, tokenScoreBias, result, sources, results, pc>>

\* fuzzyMatchByTokens has returned: the rest of fuzzyMatch. The option is
\* an argument of the call; nothing reads it before this point, so its
\* value is drawn here.
FuzzyMatchReturn ==
    /\ pc = "tokens"
    /\ tok.status # "loop"
    /\ \E b \in TokenScoreBiases :
          /\ tokenScoreBias' = b
          /\ result' = fuzzyMatchResult(tok.ret, query, source, b)
    /\ pc' = "done"
    /\ UNCHANGED <<query, source, tok, sources, results>>

Next == FuzzyMatchCall \/ TokenLoop \/ FuzzyMatchReturn

Spec == Init /\ [][Next]_vars

\* fuzzyMatch is called on the shorter inputs
FuzzyMatchCallShort ==
    /\ pc = "idle"
    /\ \E q \in StringsUpTo(QueryChars, MaxQueryLen - 1),
          s \in StringsUpTo(SourceChars, MaxSourceLen - 1) :
          /\ query' = q
          /\ source' = s
          /\ tok' = TokenInit(q)
    /\ pc' = "tokens"
    /\ UNCHANGED <<tokenScoreBias, result, sources, results>>

FairNext == FuzzyMatchCallShort \/ TokenLoop \/ FuzzyMatchReturn

\* The loop keeps iterating while its condition holds: the program is
\* sequential and nothing preempts it
FairSpec == Init /\ [][FairNext]_vars /\ WF_vars(TokenLoop)

(***************************************************************************)
(* One call of fuzzySearch.                                                *)
(***************************************************************************)
SearchQueryChars == {ChA, ChOne, ChSpace}
SearchQueries == StringsUpTo(SearchQueryChars, MaxQueryLen - 1)
\* The candidates: aa, aA, a1-, a1a, -a1
SearchSources ==
    { <<ChA, ChA>>, <<ChA, ChUpperA>>, <<ChA, ChOne, ChHyphen>>,
      <<ChA, ChOne, ChA>>, <<ChHyphen, ChA, ChOne>> }

\* One call of fuzzySearch(query, sources, {tokenScoreBias})
FuzzySearch ==
    /\ pc = "idle"
    /\ \E q \in SearchQueries, ss \in StringsUpTo(SearchSources, MaxCandidates),
          b \in TokenScoreBiases :
          /\ query' = q
          /\ sources' = ss
          /\ tokenScoreBias' = b
          /\ results' = fuzzySearch(q, ss, b)
    /\ pc' = "searched"
    /\ UNCHANGED <<source, tok, result>>

SearchNext == FuzzySearch

SearchSpec == Init /\ [][SearchNext]_vars

(***************************************************************************)
(* One call of fuzzyMatchByWildcard.                                       *)
(***************************************************************************)
\* One call of fuzzyMatchByWildcard(query, source)
FuzzyMatchByWildcard ==
    /\ pc = "idle"
    /\ \E q \in Queries, s \in Sources :
          /\ query' = q
          /\ source' = s
          /\ result' = fuzzyMatchByWildcard(q, s)
    /\ pc' = "wildcarded"
    /\ UNCHANGED <<tokenScoreBias, tok, sources, results>>

WildcardNext == FuzzyMatchByWildcard

WildcardSpec == Init /\ [][WildcardNext]_vars

(***************************************************************************)
(* Vocabulary of the properties.                                           *)
(***************************************************************************)
\* The query as the matchers see it
Stripped == NormalizeQuery(query)

StrictlyIncreasing(m) == \A i \in 1..(Len(m) - 1) : m[i] < m[i + 1]

RECURSIVE IsSubsequence(_, _)
\* q can be obtained from s by deleting characters
IsSubsequence(q, s) ==
    IF q = <<>> THEN TRUE
    ELSE IF s = <<>> THEN FALSE
    ELSE \/ Head(q) = Head(s) /\ IsSubsequence(Tail(q), Tail(s))
         \/ IsSubsequence(q, Tail(s))

\* m embeds q in s, each character at its first occurrence after the previous one
LeftmostGreedy(q, s, m) ==
    /\ Len(m) = Len(q)
    /\ \A i \in 1..Len(q) :
          LET lo == IF i = 1 THEN 0 ELSE m[i - 1] + 1
          IN  /\ m[i] >= lo
              /\ m[i] < Len(s)
              /\ CharAt(s, m[i]) = q[i]
              /\ \A j \in lo..(m[i] - 1) : CharAt(s, j) # q[i]

TokenStartSet(s) == {TokenStarts(s)[i] : i \in 1..Len(TokenStarts(s))}

(***************************************************************************)
(* C1: with the default tokenScoreBias 10, the result of fuzzyMatch has    *)
(* score 0 exactly when matches is empty, and a non-empty matches comes    *)
(* with a score greater than 0.                                            *)
(***************************************************************************)
C1_ScoreZeroIffNoMatches ==
    (pc = "done" /\ tokenScoreBias = 10) =>
        /\ ScoreEq(result.score, Zero) <=> (result.matches = <<>>)
        /\ (result.matches # <<>>) => ScoreGt(result.score, Zero)

(***************************************************************************)
(* C2: when fuzzyMatch returns a score greater than 0, matches has one     *)
(* position per character of the stripped, lower-cased query and is        *)
(* strictly increasing.                                                    *)
(***************************************************************************)
C2_FullLengthStrictlyIncreasing ==
    (pc = "done" /\ ScoreGt(result.score, Zero)) =>
        /\ Len(result.matches) = Len(Stripped)
        /\ StrictlyIncreasing(result.matches)

(***************************************************************************)
(* C3: when fuzzyMatch returns non-empty matches, every matches[i] is an   *)
(* index into source and the lower-cased source character there is the     *)
(* i-th character of the stripped, lower-cased query.                      *)
(***************************************************************************)
C3_MatchesPointAtQueryChars ==
    (pc = "done" /\ result.matches # <<>>) =>
        /\ Len(result.matches) <= Len(Stripped)
        /\ \A i \in 1..Len(result.matches) :
              /\ result.matches[i] >= 0
              /\ result.matches[i] < Len(source)
              /\ CharToLowerCase(CharAt(source, result.matches[i])) = <<Stripped[i]>>

(***************************************************************************)
(* C4: a query longer than the source, an empty source with a non-empty    *)
(* query, and a query that is empty after stripping all make fuzzyMatch    *)
(* return score exactly 0 and empty matches.                               *)
(***************************************************************************)
C4_DegenerateInputsGiveNoMatch ==
    (/\ pc = "done"
     /\ \/ Len(Stripped) > Len(source)
        \/ source = <<>> /\ query # <<>>
        \/ Stripped = <<>>) =>
        /\ ScoreEq(result.score, Zero)
        /\ result.matches = <<>>

(***************************************************************************)
(* C5: the list fuzzySearch returns is sorted: of two adjacent results the *)
(* first has the greater score, or the scores are equal and its source is  *)
(* not greater than the second's in code-unit order.                       *)
(***************************************************************************)
C5_ResultsSorted ==
    (pc = "searched") =>
        \A i \in 1..(Len(results) - 1) :
            \/ ScoreGt(results[i].score, results[i + 1].score)
            \/ /\ ScoreEq(results[i].score, results[i + 1].score)
               /\ ~StringGt(results[i].source, results[i + 1].source)

\* Three candidates come back in reverse: the two that tie on the score
\* first, ordered by source, then the one with the lower score
C5_Witness ==
    /\ pc = "searched"
    /\ Len(results) = 3
    /\ ScoreEq(results[1].score, results[2].score)
    /\ results[1].source # results[2].source
    /\ ScoreGt(results[2].score, results[3].score)
    /\ results[1].sourceIndex = 2
    /\ results[2].sourceIndex = 1
    /\ results[3].sourceIndex = 0

(***************************************************************************)
(* C6: for a non-empty query, the candidate at index i is in the result of *)
(* fuzzySearch (once, with sourceIndex i and its own source) if and only   *)
(* if the stripped query is, case-insensitively, a subsequence of it.      *)
(***************************************************************************)
C6_ResultsAreTheSubsequenceMatches ==
    (pc = "searched" /\ query # <<>>) =>
        \A i \in 0..(Len(sources) - 1) :
            LET hits == {k \in 1..Len(results) : results[k].sourceIndex = i}
            IN  IF IsSubsequence(Stripped, ToLowerCase(sources[i + 1]))
                THEN /\ Cardinality(hits) = 1
                     /\ \A k \in hits : results[k].source = sources[i + 1]
                ELSE hits = {}

(***************************************************************************)
(* C7: for a query that is non-empty after stripping, fuzzyMatchByWildcard *)
(* returns matches of the stripped query's length if and only if the       *)
(* stripped, lower-cased query is a subsequence of the lower-cased source; *)
(* the matches are then the leftmost-greedy embedding, and otherwise the   *)
(* result is score 0 with empty matches.                                   *)
(***************************************************************************)
C7_WildcardIsLeftmostGreedySubsequence ==
    (pc = "wildcarded" /\ Stripped # <<>>) =>
        LET sub == IsSubsequence(Stripped, ToLowerCase(source))
        IN  /\ (Len(result.matches) = Len(Stripped)) <=> sub
            /\ sub => LeftmostGreedy(Stripped, ToLowerCase(source), result.matches)
            /\ ~sub => result = NoMatch

\* An embedding that has to skip source characters, one of them upper-case
C7_Witness ==
    /\ pc = "wildcarded"
    /\ Len(result.matches) = 2
    /\ result.matches[2] > result.matches[1] + 1
    /\ IsUpper(CharAt(source, result.matches[2]))

(***************************************************************************)
(* C8: fuzzyMatch returns the token matcher's positions with its score     *)
(* times tokenScoreBias when that score is greater than 0, and otherwise   *)
(* exactly what fuzzyMatchByWildcard returns; so when the token matcher    *)
(* fails on a source of which the query is a subsequence, the result is    *)
(* the wildcard positions with a score greater than 0.                     *)
(***************************************************************************)
C8_TokenResultBiasedElseWildcard ==
    (pc = "done") =>
        LET t == fuzzyMatchByTokens(query, source)
            w == fuzzyMatchByWildcard(query, source)
        IN  /\ ScoreGt(t.score, Zero) =>
                  /\ result.matches = t.matches
                  /\ result.score.kind = t.score.kind
                  /\ t.score.kind = "num" =>
                         result.score.num * t.score.den
                             = tokenScoreBias * t.score.num * result.score.den
            /\ ~ScoreGt(t.score, Zero) => result = w
            /\ (tok.status = "failed" /\ IsSubsequence(Stripped, ToLowerCase(source))) =>
                  /\ LeftmostGreedy(Stripped, ToLowerCase(source), result.matches)
                  /\ ScoreGt(result.score, Zero)

\* The token matcher failed and the wildcard matcher found the query
C8_Witness ==
    /\ pc = "done"
    /\ tok.status = "failed"
    /\ tokenScoreBias = 10
    /\ Len(result.matches) >= 2
    /\ ScoreGt(result.score, Zero)

C10_TokenLoopTerminatesWithinTokenScans ==
    /\ [](tok.scans <= Len(TokenStarts(source)) + 1)
    /\ (pc = "tokens") ~> (tok.status # "loop")

\* The loop went through every token of a source with two tokens and failed
C10_Witness ==
    /\ tok.status = "failed"
    /\ Len(TokenStarts(source)) = 2
    /\ tok.scans = 3

====
